---- MODULE Spec2Model ----
(***************************************************************************)
(* Model of src/plot.py: dijkstra(grafo, inicio), the priority-queue       *)
(* shortest-path solver, and the module-level run on grafo_exemplo.        *)
(*                                                                         *)
(* One behaviour is one call of dijkstra.  Init is the state reached after *)
(* lines 19-25 (tables seeded, (0, inicio) in the queue); every later step *)
(* is one iteration of the while loop of line 27, or the return of line 41,*)
(* or the KeyError that a subscript of lines 33/36 raises.                 *)
(***************************************************************************)
EXTENDS Integers, Sequences, FiniteSets, TLC

VARIABLES grafo, inicio, distancias, caminhos, fila_prioridade, pc,
          rebaixamentos, empilhamentos, expansoes

vars == <<grafo, inicio, distancias, caminhos, fila_prioridade, pc,
          rebaixamentos, empilhamentos, expansoes>>

(***************************************************************************)
(* Inputs.                                                                 *)
(***************************************************************************)

\* Largest edge weight of the enumerated graphs (weights are 0..MaxWeight).
MaxWeight == 2

\* Largest number of edges of the enumerated graphs.
MaxEdges == 3

\* Longest expansion history kept per vertex (expansoes is an observer of the
\* run, not a variable of the code; it stops growing at this length).
MaxExpansoes == 3

\* Vertex labels of the enumerated graphs.
Vertices == {"A", "B", "C"}

\* float('infinity') of line 19.  Distances are naturals or this marker;
\* every comparison goes through MenorQue/MaiorQue below, which order the
\* marker above every number as Python's float comparison does.
Infinity == -1

\* Python's < on str for the one-letter labels used here: code-point order.
Labels == <<"A", "B", "C", "D", "E", "F", "G", "H", "I">>

Rank(v) == CHOOSE i \in 1..Len(Labels) : Labels[i] = v

\* a < b on numbers extended with float('infinity').
MenorQue(a, b) ==
    IF a = Infinity THEN FALSE
    ELSE IF b = Infinity THEN TRUE
    ELSE a < b

\* a > b on numbers extended with float('infinity').
MaiorQue(a, b) == MenorQue(b, a)

\* The literal of lines 87-97.
grafo_exemplo ==
    [v \in {"A", "B", "C", "D", "E", "F", "G", "H", "I"} |->
        CASE v = "A" -> ("B" :> 6) @@ ("D" :> 1) @@ ("H" :> 2)
          [] v = "B" -> ("A" :> 6) @@ ("C" :> 5) @@ ("D" :> 2) @@ ("G" :> 3)
          [] v = "C" -> ("B" :> 5) @@ ("D" :> 1) @@ ("E" :> 3) @@ ("I" :> 1)
          [] v = "D" -> ("A" :> 1) @@ ("B" :> 2) @@ ("C" :> 1) @@ ("E" :> 4)
                        @@ ("F" :> 2)
          [] v = "E" -> ("C" :> 3) @@ ("D" :> 4) @@ ("F" :> 1)
          [] v = "F" -> ("D" :> 2) @@ ("E" :> 1) @@ ("G" :> 4)
          [] v = "G" -> ("B" :> 3) @@ ("F" :> 4) @@ ("H" :> 3)
          [] v = "H" -> ("A" :> 2) @@ ("G" :> 3) @@ ("I" :> 2)
          [] v = "I" -> ("C" :> 1) @@ ("H" :> 2)]

\* The dict-of-dicts with key set K whose edges and weights are w, a function
\* from a set of pairs <<u, v>> (u a key) to weights.
GrafoDe(K, w) ==
    [u \in K |-> [v \in {y \in Vertices : <<u, y>> \in DOMAIN w} |-> w[<<u, v>>]]]

(***************************************************************************)
(* heapq on a list of (distancia, vertice) tuples.  The list is kept here  *)
(* in ascending tuple order, so that its head is the element heappop       *)
(* returns (the smallest tuple); the array layout of the binary heap is    *)
(* not observable by dijkstra.                                             *)
(***************************************************************************)

\* Python's tuple comparison (d1, v1) < (d2, v2).
TuplaMenor(s, t) ==
    \/ s[1] < t[1]
    \/ s[1] = t[1] /\ Rank(s[2]) < Rank(t[2])

RECURSIVE heappush(_, _)
heappush(fila, item) ==
    IF fila = <<>> THEN <<item>>
    ELSE IF TuplaMenor(item, Head(fila)) THEN <<item>> \o fila
    ELSE <<Head(fila)>> \o heappush(Tail(fila), item)

\* heappop replaced by a read of fila[0] that removes nothing.
heappopSemRemover(fila) == [item |-> Head(fila), resto |-> fila]

\* heappop replaced by list.pop(): the last, largest, tuple is taken.
heappopMaior(fila) ==
    [item |-> fila[Len(fila)], resto |-> SubSeq(fila, 1, Len(fila) - 1)]

\* The tuple heappop returns and the queue it leaves.
heappop(fila) == [item |-> Head(fila), resto |-> Tail(fila)]

RECURSIVE PushAll(_, _)
PushAll(fila, items) ==
    IF items = {} THEN fila
    ELSE LET it == CHOOSE x \in items : \A y \in items : x = y \/ TuplaMenor(x, y)
         IN  PushAll(heappush(fila, it), items \ {it})

(***************************************************************************)
(* dijkstra, lines 19-41.                                                  *)
(***************************************************************************)

\* Lines 19-25 for one pair of arguments.
Seed(g, s) ==
    LET chaves == DOMAIN g \cup {s} IN
    /\ grafo = g
    /\ inicio = s
    /\ distancias = [v \in chaves |-> IF v = s THEN 0 ELSE Infinity]
    /\ caminhos = [v \in chaves |-> IF v = s THEN <<s>> ELSE <<>>]
    /\ fila_prioridade = <<<<0, s>>>>
    /\ pc = "loop"
    /\ rebaixamentos = [v \in chaves |-> 0]
    /\ empilhamentos = [v \in chaves |-> IF v = s THEN 1 ELSE 0]
    /\ expansoes = [v \in chaves |-> <<>>]

Init ==
    \/ \E K \in SUBSET Vertices : \E E \in SUBSET (K \X Vertices) :
          /\ Cardinality(E) <= MaxEdges
          /\ \E w \in [E -> 0..MaxWeight] : \E s \in Vertices : Seed(GrafoDe(K, w), s)
    \/ \E s \in DOMAIN grafo_exemplo : Seed(grafo_exemplo, s)

\* Line 30 with >= in place of >.
ObsoletoNaoEstrito(distancia_atual, vertice_atual) ==
    ~MenorQue(distancia_atual, distancias[vertice_atual])

\* Line 30: the popped tuple is stale.
Obsoleto(distancia_atual, vertice_atual) ==
    MaiorQue(distancia_atual, distancias[vertice_atual])

\* Line 34 without the accumulated distance.
NovaDistanciaSemAcumular(distancia_atual, peso) == peso

\* Line 34: distancia = distancia_atual + peso.
NovaDistancia(distancia_atual, peso) == distancia_atual + peso

\* Line 36 with <= in place of <.
MelhoraNaoEstrito(distancia, vizinho) == ~MaiorQue(distancia, distancias[vizinho])

\* Line 36: the candidate strictly improves the neighbour's distance.
Melhora(distancia, vizinho) == MenorQue(distancia, distancias[vizinho])

\* Line 38 extending the neighbour's own old path instead of the predecessor's.
NovoCaminhoDoVizinho(vertice_atual, vizinho) == Append(caminhos[vizinho], vizinho)

\* Line 38: caminhos[vertice_atual] + [vizinho].
NovoCaminho(vertice_atual, vizinho) == Append(caminhos[vertice_atual], vizinho)

\* Lines 33 and 36 subscript grafo and distancias: both succeed for vertice_atual.
SemKeyError(vertice_atual) ==
    /\ vertice_atual \in DOMAIN grafo
    /\ \A vizinho \in DOMAIN grafo[vertice_atual] : vizinho \in DOMAIN distancias

\* Lines 27-31: an iteration whose popped tuple is stale.
Descartar ==
    /\ pc = "loop"
    /\ fila_prioridade # <<>>
    /\ LET p == heappop(fila_prioridade) IN
        /\ Obsoleto(p.item[1], p.item[2])
        /\ fila_prioridade' = p.resto
    /\ UNCHANGED <<grafo, inicio, distancias, caminhos, pc,
                   rebaixamentos, empilhamentos, expansoes>>

\* Lines 27-39: an iteration that relaxes every outgoing edge of the popped
\* vertex.  The neighbours of one inner dict are distinct, so the updates of
\* one iteration touch distinct entries and their order is immaterial;
\* caminhos[vertice_atual] is not rewritten during its own expansion, since
\* with weights >= 0 a self-loop never passes the test of line 36.
Expandir ==
    /\ pc = "loop"
    /\ fila_prioridade # <<>>
    /\ LET p == heappop(fila_prioridade)
           distancia_atual == p.item[1]
           vertice_atual == p.item[2]
       IN
        /\ ~Obsoleto(distancia_atual, vertice_atual)
        /\ SemKeyError(vertice_atual)
        /\ LET novo(vizinho) ==
                   NovaDistancia(distancia_atual, grafo[vertice_atual][vizinho])
               melhorados == {vizinho \in DOMAIN grafo[vertice_atual] :
                                Melhora(novo(vizinho), vizinho)}
           IN
            /\ distancias' = [v \in DOMAIN distancias |->
                                IF v \in melhorados THEN novo(v) ELSE distancias[v]]
            /\ caminhos' = [v \in DOMAIN caminhos |->
                                IF v \in melhorados
                                THEN NovoCaminho(vertice_atual, v)
                                ELSE caminhos[v]]
            /\ fila_prioridade' =
                    PushAll(p.resto, {<<novo(v), v>> : v \in melhorados})
            /\ rebaixamentos' = [v \in DOMAIN rebaixamentos |->
                                IF v \in melhorados THEN rebaixamentos[v] + 1
                                ELSE rebaixamentos[v]]
            /\ empilhamentos' = [v \in DOMAIN empilhamentos |->
                                IF v \in melhorados THEN empilhamentos[v] + 1
                                ELSE empilhamentos[v]]
            /\ expansoes' = [expansoes EXCEPT
                                ![vertice_atual] =
                                    IF Len(@) < MaxExpansoes
                                    THEN Append(@, distancia_atual) ELSE @]
    /\ UNCHANGED <<grafo, inicio, pc>>

\* Lines 33/36: a subscript fails; the exception leaves dijkstra and its
\* local tables are never returned.
LancarKeyError ==
    /\ pc = "loop"
    /\ fila_prioridade # <<>>
    /\ LET p == heappop(fila_prioridade) IN
        /\ ~Obsoleto(p.item[1], p.item[2])
        /\ ~SemKeyError(p.item[2])
        /\ fila_prioridade' = p.resto
    /\ pc' = "KeyError"
    /\ UNCHANGED <<grafo, inicio, distancias, caminhos,
                   rebaixamentos, empilhamentos, expansoes>>

\* Lines 27 and 41: the queue is empty, the two tables are returned.
Retornar ==
    /\ pc = "loop"
    /\ fila_prioridade = <<>>
    /\ pc' = "returned"
    /\ UNCHANGED <<grafo, inicio, distancias, caminhos, fila_prioridade,
                   rebaixamentos, empilhamentos, expansoes>>

Next == Descartar \/ Expandir \/ LancarKeyError \/ Retornar

Spec == Init /\ [][Next]_vars

\* dijkstra runs on one thread with nothing to wait for: an iteration that
\* can be taken is taken.
SpecLive == Spec /\ WF_vars(Next)

(***************************************************************************)
(* Reference notions, computed from grafo and inicio alone.                *)
(***************************************************************************)

\* The preconditions of the contract: inicio and every edge target are keys
\* (weights are naturals in every enumerated graph).
ValidInput ==
    /\ inicio \in DOMAIN grafo
    /\ \A u \in DOMAIN grafo : DOMAIN grafo[u] \subseteq DOMAIN grafo

\* Smallest number of a set of distances; the marker if it holds no number.
Minimo(S) ==
    LET F == S \ {Infinity} IN
    IF F = {} THEN Infinity ELSE CHOOSE x \in F : \A y \in F : x <= y

\* One Bellman-Ford round over every edge.
BFRodada(d) ==
    [v \in DOMAIN d |->
        Minimo({d[v]} \cup
               {d[u] + grafo[u][v] :
                    u \in {x \in DOMAIN grafo :
                            d[x] # Infinity /\ v \in DOMAIN grafo[x]}})]

RECURSIVE BellmanFord(_, _)
BellmanFord(d, n) == IF n = 0 THEN d ELSE BellmanFord(BFRodada(d), n - 1)

\* Minimum weight over all walks from inicio, by Bellman-Ford.
Referencia ==
    BellmanFord([v \in DOMAIN grafo |-> IF v = inicio THEN 0 ELSE Infinity],
                Cardinality(DOMAIN grafo))

RECURSIVE Fecho(_)
Fecho(S) ==
    LET T == S \cup {v \in Vertices \cup DOMAIN grafo :
                        \E u \in S \cap DOMAIN grafo : v \in DOMAIN grafo[u]}
    IN  IF T = S THEN S ELSE Fecho(T)

\* The vertices some directed path from inicio reaches.
Alcancaveis == Fecho({inicio})

\* Number of edges u -> v of the graph.
GrauEntrada(v) == Cardinality({u \in DOMAIN grafo : v \in DOMAIN grafo[u]})

RECURSIVE SomaPesos(_)
SomaPesos(caminho) ==
    IF Len(caminho) <= 1 THEN 0
    ELSE grafo[caminho[1]][caminho[2]] + SomaPesos(Tail(caminho))

\* Every consecutive pair of the sequence is an edge of the graph.
SoArestas(caminho) ==
    \A i \in 1..(Len(caminho) - 1) :
        /\ caminho[i] \in DOMAIN grafo
        /\ caminho[i + 1] \in DOMAIN grafo[caminho[i]]

(***************************************************************************)
(* Claims.                                                                 *)
(***************************************************************************)

\* C1: on a valid input the returned distancias has exactly the keys of grafo
\* and maps each vertex to the minimum total weight over all directed paths
\* from inicio (the Bellman-Ford value), which is infinity exactly for the
\* vertices no path reaches.
C1_DistanciasMinimas ==
    (pc = "returned" /\ ValidInput) =>
        /\ DOMAIN distancias = DOMAIN grafo
        /\ distancias = Referencia
        /\ \A v \in DOMAIN grafo : (distancias[v] = Infinity) <=> (v \notin Alcancaveis)

\* A valid run has returned and some vertex got its distance through a
\* two-edge path that beats its direct edge from inicio.
C1_Witness ==
    /\ pc = "returned"
    /\ ValidInput
    /\ \E v \in DOMAIN grafo :
        /\ v \in DOMAIN grafo[inicio]
        /\ Len(caminhos[v]) = 3
        /\ distancias[v] < grafo[inicio][v]

\* C2: on a valid input, for every vertex of finite returned distance the
\* returned path starts with inicio, ends with the vertex, follows edges of
\* the graph, and its weights sum to the returned distance.
C2_CaminhoConsistente ==
    (pc = "returned" /\ ValidInput) =>
        \A v \in DOMAIN distancias :
            distancias[v] # Infinity =>
                /\ caminhos[v] # <<>>
                /\ caminhos[v][1] = inicio
                /\ caminhos[v][Len(caminhos[v])] = v
                /\ SoArestas(caminhos[v])
                /\ SomaPesos(caminhos[v]) = distancias[v]

\* A valid run has returned a three-vertex path of positive total weight
\* to a vertex whose path was overwritten at least once.
C2_Witness ==
    /\ pc = "returned"
    /\ ValidInput
    /\ \E v \in DOMAIN distancias :
        /\ Len(caminhos[v]) = 3
        /\ distancias[v] > 0
        /\ rebaixamentos[v] >= 2

\* C3: on a valid input every vertex whose returned distance is infinite has
\* an empty returned path and is reached by no directed path from inicio.
C3_InfinitoVazioInalcancavel ==
    (pc = "returned" /\ ValidInput) =>
        \A v \in DOMAIN distancias :
            distancias[v] = Infinity =>
                /\ caminhos[v] = <<>>
                /\ v \notin Alcancaveis

\* A valid run has returned with an isolated vertex (no edge in or out) at
\* infinite distance and empty path, next to a reached vertex.
C3_Witness ==
    /\ pc = "returned"
    /\ ValidInput
    /\ \E z \in DOMAIN grafo :
        /\ DOMAIN grafo[z] = {}
        /\ GrauEntrada(z) = 0
        /\ distancias[z] = Infinity
        /\ caminhos[z] = <<>>
    /\ \E v \in DOMAIN grafo : v # inicio /\ distancias[v] # Infinity

\* The run of lines 100-101: dijkstra(grafo_exemplo, 'A') has returned.
ExemploRetornou ==
    /\ grafo = grafo_exemplo
    /\ inicio = "A"
    /\ pc = "returned"

\* C4 as stated: the example run yields A:0, B:3, C:2, D:1, E:5, F:3, G:4,
\* H:2, I:3.
C4_Original ==
    ExemploRetornou =>
        distancias = ("A" :> 0) @@ ("B" :> 3) @@ ("C" :> 2) @@ ("D" :> 1)
                     @@ ("E" :> 5) @@ ("F" :> 3) @@ ("G" :> 4) @@ ("H" :> 2)
                     @@ ("I" :> 3)

\* C4 amended: the example run yields A:0, B:3, C:2, D:1, E:4 (A-D-F-E),
\* F:3, G:5 (A-H-G), H:2, I:3.
C4_DistanciasExemplo ==
    ExemploRetornou =>
        distancias = ("A" :> 0) @@ ("B" :> 3) @@ ("C" :> 2) @@ ("D" :> 1)
                     @@ ("E" :> 4) @@ ("F" :> 3) @@ ("G" :> 5) @@ ("H" :> 2)
                     @@ ("I" :> 3)

\* The example run has returned, with E reached through F and G through H.
C4_Witness ==
    /\ ExemploRetornou
    /\ caminhos["E"] = <<"A", "D", "F", "E">>
    /\ caminhos["G"] = <<"A", "H", "G">>

\* The tables as lines 19-22 leave them.
TabelasSemeadas ==
    /\ distancias = [v \in DOMAIN grafo \cup {inicio} |->
                        IF v = inicio THEN 0 ELSE Infinity]
    /\ caminhos = [v \in DOMAIN grafo \cup {inicio} |->
                        IF v = inicio THEN <<inicio>> ELSE <<>>]

\* C5 as stated: when inicio is not a key of grafo the call raises no failure.
C5_Original == (inicio \notin DOMAIN grafo) => pc # "KeyError"

\* C5 amended: when inicio is not a key of grafo the call never returns; the
\* tables stay as seeded (inicio at 0 with path [inicio], every key at
\* infinity with an empty path) and the first iteration, the only step the
\* loop can take, raises KeyError at grafo[inicio].
C5_FonteAusenteLancaKeyError ==
    (inicio \notin DOMAIN grafo) =>
        /\ pc \in {"loop", "KeyError"}
        /\ TabelasSemeadas
        /\ pc = "loop" =>
            /\ fila_prioridade = <<<<0, inicio>>>>
            /\ ENABLED LancarKeyError
            /\ ~ENABLED Expandir
            /\ ~ENABLED Descartar
            /\ ~ENABLED Retornar

\* A call whose inicio is not a key of a graph that has keys and edges has
\* ended in KeyError.
C5_Witness ==
    /\ inicio \notin DOMAIN grafo
    /\ \E u \in DOMAIN grafo : DOMAIN grafo[u] # {}
    /\ pc = "KeyError"

\* C6: with inicio a key, an edge target that is not a key is not an error:
\* the solve never fails.
C6_AlvoAusenteSemErro == (inicio \in DOMAIN grafo) => pc # "KeyError"

\* C7: on a valid input the loop terminates: the queue empties and the
\* tables are returned.
C7_Termina == <>(~ValidInput \/ (pc = "returned" /\ fila_prioridade = <<>>))

\* A valid run has returned after discarding a stale tuple and expanding
\* every vertex.
C7_Witness ==
    /\ pc = "returned"
    /\ ValidInput
    /\ \A v \in DOMAIN grafo : expansoes[v] # <<>>
    /\ \E v \in DOMAIN grafo : empilhamentos[v] >= 2

\* C8: at every moment of a solve, the number of times distancias[v] has
\* been lowered is at most the in-degree of v, and v has been pushed once
\* per lowering (plus the initial push of inicio).
C8_RebaixamentosAteGrauEntrada ==
    \A v \in DOMAIN distancias :
        /\ rebaixamentos[v] <= GrauEntrada(v)
        /\ empilhamentos[v] = rebaixamentos[v] + (IF v = inicio THEN 1 ELSE 0)

\* Some vertex of in-degree at least two has been lowered once per
\* incoming edge.
C8_Witness ==
    \E v \in DOMAIN distancias :
        /\ GrauEntrada(v) >= 2
        /\ rebaixamentos[v] = GrauEntrada(v)

\* C9: once a vertex has been expanded, no later iteration changes its
\* distance or its path or expands it again.
C9_ExpandidoFinal ==
    [][\A u \in DOMAIN expansoes :
            expansoes[u] # <<>> =>
                /\ distancias'[u] = distancias[u]
                /\ caminhos'[u] = caminhos[u]
                /\ expansoes'[u] = expansoes[u]]_vars

\* A vertex other than inicio has been expanded, and a further expansion
\* has since written a path that extends its path.
C9_Witness ==
    \E u \in DOMAIN expansoes : \E v \in DOMAIN expansoes :
        /\ u # inicio
        /\ v # u
        /\ expansoes[u] # <<>>
        /\ expansoes[v] = <<>>
        /\ caminhos[v] = Append(caminhos[u], v)

\* The tuple the next iteration pops fails the test of line 30.
ProximoObsoleto ==
    /\ pc = "loop"
    /\ fila_prioridade # <<>>
    /\ Obsoleto(heappop(fila_prioridade).item[1], heappop(fila_prioridade).item[2])

\* C10: an iteration that pops a stale tuple only removes that tuple:
\* distancias and caminhos are unchanged and nothing is pushed; and the
\* tuple's vertex has already been expanded with its current distance.
C10_ObsoletoDescartado ==
    [][ProximoObsoleto =>
            LET v == heappop(fila_prioridade).item[2] IN
            /\ distancias' = distancias
            /\ caminhos' = caminhos
            /\ fila_prioridade' = Tail(fila_prioridade)
            /\ pc' = "loop"
            /\ expansoes[v] # <<>>
            /\ expansoes[v][Len(expansoes[v])] = distancias[v]]_vars

\* A stale tuple has just been discarded, with tuples still queued.
C10_Witness ==
    /\ pc = "loop"
    /\ fila_prioridade # <<>>
    /\ \E v \in DOMAIN distancias :
        /\ empilhamentos[v] >= 2
        /\ expansoes[v] # <<>>
        /\ \A i \in 1..Len(fila_prioridade) : fila_prioridade[i][2] # v

====
